---- MODULE Spec2Model ----
(***************************************************************************)
(* Antiderivative antialiasing (ADAA) core of rustadaa: src/src/adaa.rs.   *)
(*                                                                         *)
(* The processors work on f64 samples.  The model computes with exact      *)
(* rational numbers: a value is a record [neg, n, d] standing for          *)
(* (-1)^neg * n / d, with n and d natural numbers of arbitrary size kept   *)
(* as little-endian sequences of base-10^4 limbs (TLC's own integers are   *)
(* 32 bits wide, and the squares and cubes of samples that lie within      *)
(* TOLERANCE = 1e-5 of each other do not fit).  A value whose denominator  *)
(* is zero is a result that is not finite (the Inf and NaN of f64, which   *)
(* the model does not tell apart); it propagates through the arithmetic    *)
(* and compares false with everything, as NaN does.                        *)
(*                                                                         *)
(* The samples of the model are at most a few hundred in magnitude.  In    *)
(* that range f64 leaves the finite numbers in two places only, the exp    *)
(* and cosh calls of Tanh, and these are modelled.  The rounding of f64    *)
(* is not modelled.                                                        *)
(***************************************************************************)
EXTENDS Integers, Sequences, FiniteSets, TLC

----------------------------------------------------------------------------
(* Natural numbers of arbitrary size.                                      *)

Base == 100 * 100

RECURSIVE NatNorm(_)
NatNorm(a) ==
    IF a = <<>> THEN <<>>
    ELSE IF a[Len(a)] = 0 THEN NatNorm(SubSeq(a, 1, Len(a) - 1))
    ELSE a

RECURSIVE NatAddC(_, _, _)
NatAddC(a, b, c) ==
    IF a = <<>> /\ b = <<>> THEN (IF c = 0 THEN <<>> ELSE <<c>>)
    ELSE IF b = <<>> /\ c = 0 THEN a
    ELSE IF a = <<>> /\ c = 0 THEN b
    ELSE LET x == IF a = <<>> THEN 0 ELSE Head(a)
             y == IF b = <<>> THEN 0 ELSE Head(b)
             s == x + y + c
         IN  <<s % Base>> \o NatAddC(IF a = <<>> THEN a ELSE Tail(a),
                                     IF b = <<>> THEN b ELSE Tail(b),
                                     s \div Base)

NatAdd(a, b) == NatAddC(a, b, 0)

\* a - b for a >= b, before the leading zero limbs are removed
RECURSIVE NatSubB(_, _, _)
NatSubB(a, b, br) ==
    IF a = <<>> THEN <<>>
    ELSE IF b = <<>> /\ br = 0 THEN a
    ELSE LET y == IF b = <<>> THEN 0 ELSE Head(b)
             s == Head(a) - y - br
         IN  <<IF s < 0 THEN s + Base ELSE s>>
             \o NatSubB(Tail(a), IF b = <<>> THEN b ELSE Tail(b),
                        IF s < 0 THEN 1 ELSE 0)

NatSub(a, b) == NatNorm(NatSubB(a, b, 0))

\* -1, 0 or 1 as a < b, a = b, a > b, for two numbers of the same length
RECURSIVE NatCmpAt(_, _, _)
NatCmpAt(a, b, i) ==
    IF i = 0 THEN 0
    ELSE IF a[i] < b[i] THEN -1
    ELSE IF a[i] > b[i] THEN 1
    ELSE NatCmpAt(a, b, i - 1)

NatCmp(a, b) ==
    IF Len(a) < Len(b) THEN -1
    ELSE IF Len(a) > Len(b) THEN 1
    ELSE NatCmpAt(a, b, Len(a))

RECURSIVE NatMulLimb(_, _, _)
NatMulLimb(a, m, c) ==
    IF a = <<>> THEN (IF c = 0 THEN <<>> ELSE <<c>>)
    ELSE LET s == Head(a) * m + c
         IN  <<s % Base>> \o NatMulLimb(Tail(a), m, s \div Base)

NatShift(a) == IF a = <<>> THEN <<>> ELSE <<0>> \o a

RECURSIVE NatMul(_, _)
NatMul(a, b) ==
    IF a = <<>> \/ b = <<>> THEN <<>>
    ELSE IF b = <<1>> THEN a
    ELSE IF a = <<1>> THEN b
    ELSE NatAdd(IF Head(b) = 0 THEN <<>> ELSE NatMulLimb(a, Head(b), 0),
                NatShift(NatMul(a, Tail(b))))

RECURSIVE NatOf(_)
NatOf(k) == IF k = 0 THEN <<>> ELSE <<k % Base>> \o NatOf(k \div Base)

----------------------------------------------------------------------------
(* f64 values and the f64 operations adaa.rs uses.                         *)

NaN == [neg |-> FALSE, n |-> <<>>, d |-> <<>>]

IsNaN(a) == a.d = <<>>

\* the value p/q of two TLC integers, q > 0
Rat(p, q) ==
    IF p = 0 THEN [neg |-> FALSE, n |-> <<>>, d |-> <<1>>]
    ELSE [neg |-> p < 0, n |-> NatOf(IF p < 0 THEN -p ELSE p), d |-> NatOf(q)]

Zero == Rat(0, 1)
One == Rat(1, 1)

Mk(neg, n, d) ==
    IF n = <<>> THEN Zero ELSE [neg |-> neg, n |-> n, d |-> d]

IsZero(a) == ~IsNaN(a) /\ a.n = <<>>

FNeg(a) == IF IsNaN(a) \/ a.n = <<>> THEN a ELSE [a EXCEPT !.neg = ~a.neg]

\* f64::abs
FAbs(a) == IF IsNaN(a) THEN a ELSE [a EXCEPT !.neg = FALSE]

\* f64::signum: 1.0 for a positive number and for +0.0, -1.0 for a negative one
FSignum(a) == IF IsNaN(a) THEN NaN ELSE IF a.neg THEN Rat(-1, 1) ELSE One

FAdd(a, b) ==
    IF IsNaN(a) \/ IsNaN(b) THEN NaN
    ELSE IF a.n = <<>> THEN b
    ELSE IF b.n = <<>> THEN a
    ELSE LET same == a.d = b.d
             den  == IF same THEN a.d ELSE NatMul(a.d, b.d)
             an   == IF same THEN a.n ELSE NatMul(a.n, b.d)
             bn   == IF same THEN b.n ELSE NatMul(b.n, a.d)
             c    == NatCmp(an, bn)
         IN  IF a.neg = b.neg THEN Mk(a.neg, NatAdd(an, bn), den)
             ELSE IF c = 0 THEN Zero
             ELSE IF c > 0 THEN Mk(a.neg, NatSub(an, bn), den)
             ELSE Mk(b.neg, NatSub(bn, an), den)

FSub(a, b) == FAdd(a, FNeg(b))

FMul(a, b) ==
    IF IsNaN(a) \/ IsNaN(b) THEN NaN
    ELSE Mk(a.neg # b.neg, NatMul(a.n, b.n), NatMul(a.d, b.d))

\* a / b; a division by zero gives Inf or NaN, which the model does not tell apart
FDiv(a, b) ==
    IF IsNaN(a) \/ IsNaN(b) \/ b.n = <<>> THEN NaN
    ELSE Mk(a.neg # b.neg, NatMul(a.n, b.d), NatMul(a.d, b.n))

\* -1, 0, 1 as a < b, a == b, a > b, for two numbers
FCmp(a, b) ==
    LET an == IF a.d = b.d THEN a.n ELSE NatMul(a.n, b.d)
        bn == IF a.d = b.d THEN b.n ELSE NatMul(b.n, a.d)
    IN  IF a.n = <<>> /\ b.n = <<>> THEN 0
        ELSE IF a.n = <<>> THEN (IF b.neg THEN 1 ELSE -1)
        ELSE IF b.n = <<>> THEN (IF a.neg THEN -1 ELSE 1)
        ELSE IF a.neg /\ ~b.neg THEN -1
        ELSE IF ~a.neg /\ b.neg THEN 1
        ELSE IF a.neg THEN NatCmp(bn, an)
        ELSE NatCmp(an, bn)

FLt(a, b) == ~IsNaN(a) /\ ~IsNaN(b) /\ FCmp(a, b) < 0
FLe(a, b) == ~IsNaN(a) /\ ~IsNaN(b) /\ FCmp(a, b) <= 0
FEq(a, b) == ~IsNaN(a) /\ ~IsNaN(b) /\ FCmp(a, b) = 0

----------------------------------------------------------------------------
(* adaa.rs: the tolerance and the nonlinear functions.                     *)

Half == Rat(1, 2)
Two == Rat(2, 1)
Six == Rat(6, 1)

TOLERANCE == Rat(1, 100000)

\* f64::clamp(min, max)
FClamp(x, min, max) ==
    IF FLt(x, min) THEN min ELSE IF FLt(max, x) THEN max ELSE x

HardClip_f(x) == FClamp(x, Rat(-1, 1), One)

HardClip_ad1_inner(x) == FDiv(FMul(x, x), Two)

HardClip_ad1_outer_nohalf(x) == FMul(x, FSignum(x))

HardClip_ad1_outer(x) == FSub(FMul(x, FSignum(x)), Half)

HardClip_ad1(x) ==
    IF FLt(FAbs(x), One) THEN HardClip_ad1_inner(x) ELSE HardClip_ad1_outer(x)

HardClip_ad2_inner_const(x) ==
    FAdd(FDiv(FMul(FMul(x, x), x), Six), FDiv(One, Six))

HardClip_ad2_inner(x) == FDiv(FMul(FMul(x, x), x), Six)

HardClip_ad2_outer_third(x) ==
    FSub(FMul(FAdd(FDiv(FMul(x, x), Two), FDiv(One, Rat(3, 1))), FSignum(x)),
         FDiv(x, Two))

HardClip_ad2_outer(x) ==
    FSub(FMul(FAdd(FDiv(FMul(x, x), Two), FDiv(One, Six)), FSignum(x)),
         FDiv(x, Two))

HardClip_ad2(x) ==
    IF FLt(FAbs(x), One) THEN HardClip_ad2_inner(x) ELSE HardClip_ad2_outer(x)

(***************************************************************************)
(* Tanh calls f64::tanh, cosh, ln, exp and polylog's Li2, none of which is *)
(* code of the repository.  On [-4, 4] the model takes the three functions *)
(* from their values at the multiples of 1/2, rounded to four decimals     *)
(* (entry i is the value at (i - 9)/2), and interpolates linearly between  *)
(* two entries.  Beyond, it takes them from their asymptotes: sign(x),     *)
(* |x| - ln 2 and sign(x) * (x^2/2 - |x| ln 2 + pi^2/24).                  *)
(*                                                                         *)
(* f64::exp and f64::cosh return +inf once their result exceeds f64::MAX:  *)
(* exp(t) for t > 709.78 and cosh(x) for |x| > 710.47.  In ad1 an infinite *)
(* cosh gives ln(inf) = inf.  In ad2 an infinite exp(-2x) gives            *)
(* expval = inf, expval.ln() = inf and x * (x + inf - ...) = -inf (x < 0), *)
(* so that li2(-inf) - (-inf) is not finite whatever li2 returns; an       *)
(* infinite cosh gives x * (x + ... - inf) = -inf (x > 0) and 0.5 * inf.   *)
(***************************************************************************)
TanhScale == 100 * 100

Tanh_f_tab ==
    <<-9993, -9982, -9951, -9866, -9640, -9051, -7616, -4621, 0,
      4621, 7616, 9051, 9640, 9866, 9951, 9982, 9993>>

Tanh_ad1_tab ==
    <<33072, 28078, 23093, 18136, 13250, 8554, 4338, 1201, 0,
      1201, 4338, 8554, 13250, 18136, 23093, 28078, 33072>>

Tanh_ad2_tab ==
    <<-56385, -41098, -28306, -18000, -10158, -4719, -1526, -203, 0,
      203, 1526, 4719, 10158, 18000, 28306, 41098, 56385>>

RECURSIVE TabSegment(_, _)
TabSegment(x, i) ==
    IF i >= 16 THEN 16
    ELSE IF FLe(x, Rat(i - 8, 2)) THEN i
    ELSE TabSegment(x, i + 1)

TabValue(tab, x) ==
    LET i == TabSegment(x, 1)
    IN  FAdd(Rat(tab[i], TanhScale),
             FMul(FSub(x, Rat(i - 9, 2)),
                  Rat(2 * (tab[i + 1] - tab[i]), TanhScale)))

InTable(x) == FLe(FAbs(x), Rat(4, 1))

Ln2 == Rat(6931, TanhScale)

\* f64::exp(t) is +inf: t > ln(f64::MAX)
ExpOverflows(t) == FLt(Rat(70978, 100), t)

\* f64::cosh(x) is +inf
CoshOverflows(x) == FLt(Rat(71047, 100), FAbs(x))

Tanh_f(x) ==
    IF IsNaN(x) THEN NaN
    ELSE IF InTable(x) THEN TabValue(Tanh_f_tab, x)
    ELSE FSignum(x)

Tanh_ad1(x) ==
    IF IsNaN(x) \/ CoshOverflows(x) THEN NaN
    ELSE IF InTable(x) THEN TabValue(Tanh_ad1_tab, x)
    ELSE FSub(FAbs(x), Ln2)

Tanh_ad2_finite(x) ==
    IF IsNaN(x) THEN NaN
    ELSE IF InTable(x) THEN TabValue(Tanh_ad2_tab, x)
    ELSE FMul(FSignum(x),
              FAdd(FSub(FDiv(FMul(x, x), Two), FMul(Ln2, FAbs(x))),
                   Rat(4112, TanhScale)))

Tanh_ad2(x) ==
    IF IsNaN(x) \/ ExpOverflows(FMul(Rat(-2, 1), x)) \/ CoshOverflows(x)
    THEN NaN
    ELSE Tanh_ad2_finite(x)

\* the implementations of trait NonlinearFunction
NonlinearFunction == {"HardClip", "Tanh"}

NL_f(nl, x) == IF nl = "HardClip" THEN HardClip_f(x) ELSE Tanh_f(x)

NL_ad1(nl, x) == IF nl = "HardClip" THEN HardClip_ad1(x) ELSE Tanh_ad1(x)

NL_ad2(nl, x) == IF nl = "HardClip" THEN HardClip_ad2(x) ELSE Tanh_ad2(x)

----------------------------------------------------------------------------
(* adaa.rs: the two processors.  A call gives the new state, the output y, *)
(* and, for the properties below, the divisors of the divisions it         *)
(* performed and (Adaa2) the d_now it computed.                            *)

Adaa1_default == [x1 |-> Zero, ad1_x1 |-> Zero]

\* the test of Adaa1::process: (a).abs() < TOLERANCE
Adaa1_small(a) == FLt(FAbs(a), TOLERANCE)

Adaa1_y_mid(self, nl, x, ad1_x) ==
    IF Adaa1_small(FSub(x, self.x1))
    THEN NL_f(nl, FAdd(FMul(Half, x), self.x1))
    ELSE FDiv(FSub(ad1_x, self.ad1_x1), FSub(x, self.x1))

Adaa1_y(self, nl, x, ad1_x) ==
    IF Adaa1_small(FSub(x, self.x1))
    THEN NL_f(nl, FMul(Half, FAdd(x, self.x1)))
    ELSE FDiv(FSub(ad1_x, self.ad1_x1), FSub(x, self.x1))

Adaa1_store_stale(self, x, ad1_x) == [x1 |-> x, ad1_x1 |-> self.ad1_x1]

Adaa1_store(self, x, ad1_x) == [x1 |-> x, ad1_x1 |-> ad1_x]

Adaa1_process(self, nl, x) ==
    LET ad1_x == NL_ad1(nl, x)
    IN  [self     |-> Adaa1_store(self, x, ad1_x),
         y        |-> Adaa1_y(self, nl, x, ad1_x),
         d_now    |-> Zero,
         divisors |-> IF Adaa1_small(FSub(x, self.x1)) THEN {}
                      ELSE {[of |-> "x - x1", by |-> FSub(x, self.x1)]}]

Adaa2_default ==
    [x_now |-> Zero, x_past |-> Zero, ad2_now |-> Zero, d_past |-> Zero]

\* the three tests of Adaa2::process: (a).abs() <= TOLERANCE
Adaa2_small(a) == FLe(FAbs(a), TOLERANCE)

Adaa2_d_now_past(self, nl, x_future, ad2_future) ==
    IF Adaa2_small(FSub(x_future, self.x_now))
    THEN NL_ad1(nl, FMul(Half, FAdd(x_future, self.x_now)))
    ELSE FDiv(FSub(ad2_future, self.ad2_now), FSub(x_future, self.x_past))

Adaa2_d_now(self, nl, x_future, ad2_future) ==
    IF Adaa2_small(FSub(x_future, self.x_now))
    THEN NL_ad1(nl, FMul(Half, FAdd(x_future, self.x_now)))
    ELSE FDiv(FSub(ad2_future, self.ad2_now), FSub(x_future, self.x_now))

Adaa2_xbar(self, x_future) == FMul(Half, FAdd(x_future, self.x_past))

Adaa2_delta(self, x_future) == FSub(Adaa2_xbar(self, x_future), self.x_now)

Adaa2_y_inner(self, nl, xbar, delta) ==
    IF Adaa2_small(delta)
    THEN NL_f(nl, FMul(Half, FAdd(xbar, self.x_now)))
    ELSE FMul(FDiv(Two, delta),
              FAdd(NL_ad1(nl, xbar),
                   FDiv(FSub(self.ad2_now, NL_ad2(nl, xbar)), delta)))

Adaa2_y_mid(self, nl, x_future, d_now) ==
    IF Adaa2_small(FSub(x_future, self.x_past))
    THEN IF Adaa2_small(Adaa2_delta(self, x_future))
         THEN NL_f(nl, FAdd(FMul(Half, Adaa2_xbar(self, x_future)),
                            self.x_now))
         ELSE Adaa2_y_inner(self, nl, Adaa2_xbar(self, x_future),
                            Adaa2_delta(self, x_future))
    ELSE FMul(FDiv(Two, FSub(x_future, self.x_past)),
              FSub(d_now, self.d_past))

Adaa2_y(self, nl, x_future, d_now) ==
    IF Adaa2_small(FSub(x_future, self.x_past))
    THEN Adaa2_y_inner(self, nl, Adaa2_xbar(self, x_future),
                       Adaa2_delta(self, x_future))
    ELSE FMul(FDiv(Two, FSub(x_future, self.x_past)),
              FSub(d_now, self.d_past))

Adaa2_shift_swapped(self, x_future, ad2_future, d_now) ==
    [d_past  |-> d_now,
     x_past  |-> x_future,
     x_now   |-> self.x_now,
     ad2_now |-> ad2_future]

Adaa2_shift_sum(self, x_future, ad2_future, d_now) ==
    [d_past  |-> FAdd(self.d_past, d_now),
     x_past  |-> self.x_now,
     x_now   |-> x_future,
     ad2_now |-> ad2_future]

Adaa2_shift(self, x_future, ad2_future, d_now) ==
    [d_past  |-> d_now,
     x_past  |-> self.x_now,
     x_now   |-> x_future,
     ad2_now |-> ad2_future]

Adaa2_divisors(self, x_future) ==
    (IF Adaa2_small(FSub(x_future, self.x_now)) THEN {}
     ELSE {[of |-> "x_future - x_now", by |-> FSub(x_future, self.x_now)]})
    \cup
    (IF Adaa2_small(FSub(x_future, self.x_past))
     THEN IF Adaa2_small(Adaa2_delta(self, x_future)) THEN {}
          ELSE {[of |-> "delta", by |-> Adaa2_delta(self, x_future)]}
     ELSE {[of |-> "x_future - x_past",
            by |-> FSub(x_future, self.x_past)]})

Adaa2_process(self, nl, x_future) ==
    LET ad2_future == NL_ad2(nl, x_future)
        d_now      == Adaa2_d_now(self, nl, x_future, ad2_future)
    IN  [self     |-> Adaa2_shift(self, x_future, ad2_future, d_now),
         y        |-> Adaa2_y(self, nl, x_future, d_now),
         d_now    |-> d_now,
         divisors |-> Adaa2_divisors(self, x_future)]

----------------------------------------------------------------------------
(* The caller: it constructs a processor of one order (the plugin of       *)
(* lib.rs constructs Adaa2) and calls process once per sample, choosing    *)
(* the function for each call from the nl_function parameter.              *)

\* The samples the callers feed: silence, three samples within 1.5
\* tolerances of each other (0, TOLERANCE, 1.5 * TOLERANCE), both ends of
\* the clipping range, and a loud sample far outside of it.
InputSeq ==
    <<Zero, Rat(1, 100000), Rat(3, 200000), One, Rat(-1, 1), Rat(-400, 1),
      Rat(2, 1), Rat(-1, 2), Rat(400, 1)>>

NumInputs == 6

Inputs ==
    {InputSeq[i] : i \in 1..(IF NumInputs < Len(InputSeq)
                             THEN NumInputs ELSE Len(InputSeq))}

\* the longest run of identical calls that is counted
MaxRun == 3

NoCall == [nl |-> "none", x |-> Zero]

VARIABLES
    order,   \* the processor constructed: "Adaa1" or "Adaa2"
    adaa1,   \* the Adaa1: [x1, ad1_x1]
    adaa2,   \* the Adaa2: [x_now, x_past, ad2_now, d_past]
    out,     \* what the latest call gave: [y, d_now, divisors]
    last,    \* the latest call: [nl, x], NoCall before the first
    prev,    \* the call before it
    run,     \* how many of the latest calls were the same as the latest
    used,    \* the functions used by the calls so far
    pulse    \* where the calls so far stand as zeros, one sample, zeros

vars == <<order, adaa1, adaa2, out, last, prev, run, used, pulse>>

\* The calls so far (HardClip only) were: "silence", zeros only; "hit",
\* zeros and then one non-zero sample; "tail1", "tail2", "tail3", that
\* followed by one, two, three or more zeros; "none", anything else.
PulseNext(p, nl, x) ==
    IF nl # "HardClip" \/ p = "none" THEN "none"
    ELSE IF p = "silence" THEN (IF IsZero(x) THEN "silence" ELSE "hit")
    ELSE IF ~IsZero(x) THEN "none"
    ELSE IF p = "hit" THEN "tail1"
    ELSE IF p = "tail1" THEN "tail2"
    ELSE "tail3"

Called(nl, x) ==
    /\ last' = [nl |-> nl, x |-> x]
    /\ prev' = last
    /\ run' = IF last = [nl |-> nl, x |-> x]
              THEN (IF run < MaxRun THEN run + 1 ELSE run)
              ELSE 1
    /\ used' = used \cup {nl}
    /\ pulse' = PulseNext(pulse, nl, x)

Init ==
    /\ order \in {"Adaa1", "Adaa2"}
    /\ adaa1 = Adaa1_default
    /\ adaa2 = Adaa2_default
    /\ out = [y |-> Zero, d_now |-> Zero, divisors |-> {}]
    /\ last = NoCall
    /\ prev = NoCall
    /\ run = 0
    /\ used = {}
    /\ pulse = "silence"

Adaa1Process(nl, x) ==
    /\ order = "Adaa1"
    /\ \E r \in {Adaa1_process(adaa1, nl, x)} :
           /\ adaa1' = r.self
           /\ out' = [y |-> r.y, d_now |-> r.d_now, divisors |-> r.divisors]
    /\ Called(nl, x)
    /\ UNCHANGED <<order, adaa2>>

Adaa2Process(nl, x) ==
    /\ order = "Adaa2"
    /\ \E r \in {Adaa2_process(adaa2, nl, x)} :
           /\ adaa2' = r.self
           /\ out' = [y |-> r.y, d_now |-> r.d_now, divisors |-> r.divisors]
    /\ Called(nl, x)
    /\ UNCHANGED <<order, adaa1>>

Next ==
    \E nl \in NonlinearFunction, x \in Inputs :
        \/ Adaa1Process(nl, x)
        \/ Adaa2Process(nl, x)

Spec == Init /\ [][Next]_vars

----------------------------------------------------------------------------
(* Properties.                                                             *)

\* a and b are the same f64: equal numbers, or both not finite
Same(a, b) == IF IsNaN(a) \/ IsNaN(b) THEN IsNaN(a) /\ IsNaN(b) ELSE FEq(a, b)

Adaa2Same(s, t) ==
    /\ Same(s.x_now, t.x_now)
    /\ Same(s.x_past, t.x_past)
    /\ Same(s.ad2_now, t.ad2_now)
    /\ Same(s.d_past, t.d_past)

\* C1: after every Adaa1.process::<NL>(x) the state holds x1 == x and
\* ad1_x1 == NL::ad1(x); and as long as a single function has been used,
\* the default state included, ad1_x1 == ad1(x1) for that function.
C1_Adaa1State ==
    order = "Adaa1" =>
        /\ last.nl # "none" =>
              /\ FEq(adaa1.x1, last.x)
              /\ FEq(adaa1.ad1_x1, NL_ad1(last.nl, last.x))
        /\ \A nl \in NonlinearFunction :
              used \subseteq {nl} => FEq(adaa1.ad1_x1, NL_ad1(nl, adaa1.x1))

C1_Witness ==
    /\ order = "Adaa1"
    /\ used = {"HardClip"}
    /\ prev.nl = "HardClip"
    /\ ~IsZero(adaa1.x1)
    /\ ~IsZero(adaa1.ad1_x1)

\* the Adaa2 state as a delay line over the calls made
C2_DelayLine ==
    order = "Adaa2" =>
        /\ FEq(adaa2.x_now, last.x)
        /\ FEq(adaa2.x_past, prev.x)
        /\ last.nl # "none" =>
              /\ Same(adaa2.ad2_now, NL_ad2(last.nl, adaa2.x_now))
              /\ adaa2.d_past = out.d_now

\* what one Adaa2 call does to the state
C2_Shift ==
    order = "Adaa2" =>
        /\ adaa2'.d_past = out'.d_now
        /\ adaa2'.x_past = adaa2.x_now
        /\ adaa2'.x_now = last'.x
        /\ Same(adaa2'.ad2_now, NL_ad2(last'.nl, last'.x))
        /\ adaa1' = adaa1
        /\ order' = order

C3_Adaa1Constant ==
    (order = "Adaa1" /\ run >= 2) => FEq(out.y, NL_f(last.nl, last.x))

C3_Witness ==
    /\ order = "Adaa1"
    /\ run >= 2
    /\ ~IsZero(last.x)
    /\ ~IsZero(out.y)

Defined(o) ==
    /\ ~IsNaN(o.y)
    /\ ~IsNaN(o.d_now)
    /\ \A dv \in o.divisors : ~IsNaN(dv.by) /\ ~IsZero(dv.by)

\* C5: zeros, one non-zero sample, then zeros through a fresh Adaa2 with
\* HardClip: no call divides by zero, from the third zero after the sample
\* on the output is exactly 0, and the state is the all-zero state again.
C5_Adaa2Impulse ==
    (order = "Adaa2" /\ pulse # "none") =>
        /\ Defined(out)
        /\ pulse = "tail3" => IsZero(out.y)
        /\ pulse \in {"tail2", "tail3"} => Adaa2Same(adaa2, Adaa2_default)

C5_Witness ==
    /\ order = "Adaa2"
    /\ pulse = "tail3"
    /\ run >= 3

\* C6: whatever the function of each call, process returns a defined value
\* and divides only by a step whose magnitude is >= TOLERANCE (Adaa1) or
\* > TOLERANCE (Adaa2), never by zero.
C6_Totality ==
    /\ Defined(out)
    /\ \A dv \in out.divisors :
          IF order = "Adaa1"
          THEN dv.of = "x - x1" /\ FLe(TOLERANCE, FAbs(dv.by))
          ELSE /\ dv.of \in {"x_future - x_now", "x_future - x_past", "delta"}
               /\ FLt(TOLERANCE, FAbs(dv.by))

\* C7: a processor that has processed silence with HardClip (one zero for
\* Adaa1, two zeros for Adaa2) is in the default state, and zeros fed to a
\* fresh processor return 0 and leave the state as it is.
C7_LeadingSilence ==
    /\ (order = "Adaa1" /\ last = [nl |-> "HardClip", x |-> Zero])
          => adaa1 = Adaa1_default
    /\ (order = "Adaa2" /\ last = [nl |-> "HardClip", x |-> Zero]
                        /\ prev = last)
          => adaa2 = Adaa2_default
    /\ (pulse = "silence" /\ last.nl # "none") =>
          /\ IsZero(out.y)
          /\ adaa1 = Adaa1_default
          /\ adaa2 = Adaa2_default

C7_Witness ==
    /\ order = "Adaa2"
    /\ pulse = "none"
    /\ "Tanh" \in used
    /\ last = [nl |-> "HardClip", x |-> Zero]
    /\ prev = last
    /\ run = 2
    /\ ~IsZero(out.y)

Adaa2_after(nl, a, b) ==
    Adaa2_process(Adaa2_process(Adaa2_default, nl, a).self, nl, b).self

\* the state after two calls with one function is that of a fresh Adaa2
C9_State ==
    (order = "Adaa2" /\ last.nl # "none" /\ last.nl = prev.nl) =>
        Adaa2Same(adaa2, Adaa2_after(last.nl, prev.x, last.x))

\* the output of a third call with that function is that of a fresh Adaa2
C9_Output ==
    (order = "Adaa2" /\ last.nl # "none" /\ last.nl = prev.nl
                     /\ last'.nl = last.nl) =>
        Same(out'.y,
             Adaa2_process(Adaa2_after(last.nl, prev.x, last.x),
                           last.nl, last'.x).y)

\* C9: after two consecutive calls with one function the Adaa2 state is a
\* function of the two inputs and that function alone, whatever came
\* before (calls with another function included); and the output of a
\* further call with that function is the one a fresh Adaa2 fed the same
\* three inputs gives: it depends on the three latest inputs only.
C9_Adaa2Memory == []C9_State /\ [][C9_Output]_vars

C9_Witness ==
    /\ order = "Adaa2"
    /\ used = NonlinearFunction
    /\ last.nl = prev.nl
    /\ run = 1
    /\ ~IsZero(adaa2.d_past)
    /\ ~IsZero(out.y)

\* C10: from the default state and with HardClip only, every output of
\* Adaa1.process lies in [-1, 1].
C10_Adaa1Bound ==
    (order = "Adaa1" /\ used \subseteq {"HardClip"}) =>
        /\ FLe(Rat(-1, 1), out.y)
        /\ FLe(out.y, One)

C10_Witness ==
    /\ order = "Adaa1"
    /\ used = {"HardClip"}
    /\ out.divisors # {}
    /\ FLt(Zero, out.y)
    /\ FLt(out.y, One)

====
